---- MODULE Spec2Model ----
(***************************************************************************)
(* Model of src/app.py: the Wix webhook handler (handle_wix_webhook), the  *)
(* token-exchange client (get_access_token), the in-memory credential      *)
(* table (app_instance_data) and the background refresher                  *)
(* (token_refresher_task).                                                 *)
(*                                                                         *)
(* Library behaviour: PyJWT 2.x (jwt.decode raises DecodeError,            *)
(* InvalidAlgorithmError, InvalidSignatureError, ExpiredSignatureError, all*)
(* distinct classes under InvalidTokenError).  The repository pins no      *)
(* version of requests: from 2.27 on the error of response.json() is a     *)
(* RequestException, before that it is a plain json.JSONDecodeError; both  *)
(* outcomes are modelled.                                                  *)
(***************************************************************************)
EXTENDS Integers, Sequences, FiniteSets, TLC

VARIABLES
    now,          \* the wall clock, time.time(), in seconds
    table,        \* app_instance_data: sequence (insertion order) of [instance_id, ref]
    heap,         \* the dict objects the table's values refer to: ref -> [access_token, expires_at]
                  \* (a cell no reference reaches holds EmptyRecord)
    hpc,          \* per request thread: position in handle_wix_webhook
    hraw,         \* per request thread: the request body being handled
    hinstance,    \* per request thread: local instance_id
    hres,         \* per request thread: what get_access_token did (local token)
    hstatus,      \* per request thread: the (status, message) returned
    hpre,         \* per request thread: the table's contents when the call began
    rpc,          \* refresher: position in token_refresher_task
    current_time, \* refresher: local current_time
    snapshot,     \* refresher: list(app_instance_data.items())
    idx,          \* refresher: position of the for loop in snapshot
    new_token,    \* refresher: local new_token
    wake_at       \* refresher: end of the current time.sleep(600)

vars == <<now, table, heap, hpc, hraw, hinstance, hres, hstatus, hpre,
          rpc, current_time, snapshot, idx, new_token, wake_at>>

hvars == <<hpc, hraw, hinstance, hres, hstatus, hpre>>
rvars == <<rpc, current_time, snapshot, idx, new_token, wake_at>>

----------------------------------------------------------------------------
(* Bounds of the model *)

MaxDefects == 1         \* defects one inbound request body may combine

Times == {0, 10800, 12600, 13500}   \* the instants at which the clock is read
InstanceIds == {"A", "B"}
AccessTokens == {"tok1", "tok2"}

(* Program constants *)

TOKEN_LIFETIME == 14400
REFRESH_THRESHOLD == 3600
SLEEP_SECONDS == 600

Null == "None"                      \* Python None
Truthy(v) == v # Null /\ v # ""     \* Python truthiness of None / str

----------------------------------------------------------------------------
(* Inbound request bodies *)

DataKinds == {"str_object", "str_nonobject", "str_badjson", "structure",
              "empty", "absent"}

AllBodies ==
    [utf8 : BOOLEAN,                          \* the bytes decode as UTF-8
     form : {"ok", "malformed"},              \* three decodable segments, JSON header
     alg : {"RS256", "HS256"},                \* header "alg"
     sig : {"good", "wrong", "undecodable"},  \* the signature segment
     claims : {"ok", "expired"},              \* registered claims (exp, nbf, ...)
     data : DataKinds,                        \* payload["data"]
     instanceId : InstanceIds \cup {"", Null}]  \* data["instanceId"]

HasObject(raw) == raw.data \in {"str_object", "structure"}

Defects(raw) ==
      (IF raw.utf8 THEN 0 ELSE 1)
    + (IF raw.form = "ok" THEN 0 ELSE 1)
    + (IF raw.alg = "RS256" THEN 0 ELSE 1)
    + (IF raw.sig = "good" THEN 0 ELSE 1)
    + (IF raw.claims = "ok" THEN 0 ELSE 1)
    + (IF raw.data = "str_object" THEN 0 ELSE 1)
    + (IF HasObject(raw) /\ ~Truthy(raw.instanceId) THEN 1 ELSE 0)

Bodies ==
    {raw \in AllBodies :
        /\ Defects(raw) <= MaxDefects
        /\ (~HasObject(raw) => raw.instanceId = Null)}

NoBody == [utf8 |-> TRUE, form |-> "ok", alg |-> "RS256", sig |-> "good",
           claims |-> "ok", data |-> "absent", instanceId |-> Null]

----------------------------------------------------------------------------
(* Platform answers to POST /oauth2/token *)

Responses ==
    [kind : {"transport", "non2xx", "notjson", "notjson_legacy", "notobject", "nofield"},
     token : {Null}]
    \cup [kind : {"token"}, token : AccessTokens \cup {""}]

NotCalled == [called |-> FALSE, kind |-> "none", raised |-> FALSE, exc |-> "none", value |-> Null]

----------------------------------------------------------------------------
(* get_access_token: what the client returns, or that it raised *)

Returned(resp, v) ==
    [called |-> TRUE, kind |-> resp.kind, raised |-> FALSE, exc |-> "none", value |-> v]
Raised(resp, e) ==
    [called |-> TRUE, kind |-> resp.kind, raised |-> TRUE, exc |-> e, value |-> Null]

get_access_token(resp) ==
    CASE resp.kind = "transport" -> Returned(resp, Null)   \* requests.post raises; except RequestException
      [] resp.kind = "non2xx"    -> Returned(resp, Null)   \* raise_for_status raises HTTPError
      [] resp.kind = "notjson"   -> Returned(resp, Null)   \* response.json() raises a RequestException
      [] resp.kind = "notjson_legacy" -> Raised(resp, "JSONDecodeError")  \* requests < 2.27: not caught
      [] resp.kind = "notobject" -> Raised(resp, "AttributeError")        \* token_info.get, not caught
      [] resp.kind = "nofield"   -> Returned(resp, Null)   \* dict.get gives None
      [] resp.kind = "token"     -> Returned(resp, resp.token)

----------------------------------------------------------------------------
(* jwt.decode(jwt_token, WIX_WEBHOOK_PUBLIC_KEY, algorithms=["RS256"]):    *)
(* the exception it raises, or "ok"                                        *)

jwt_decode(raw) ==
    IF raw.form # "ok" \/ raw.sig = "undecodable" THEN "DecodeError"
    ELSE IF raw.alg # "RS256" THEN "InvalidAlgorithmError"
    ELSE IF raw.sig # "good" THEN "InvalidSignatureError"
    ELSE IF raw.claims # "ok" THEN "ExpiredSignatureError"
    ELSE "ok"

Response(s, m) == [status |-> s, msg |-> m]
NoResponse == Response(0, "")

Reject(s, m) == [admit |-> FALSE, response |-> Response(s, m)]
Accept == [admit |-> TRUE, response |-> NoResponse]

(* handle_wix_webhook from jwt.decode to the test of instance_id, with the *)
(* except clauses that catch what these lines raise                        *)
PreAdmission(raw) ==
    LET exc == jwt_decode(raw) IN
    IF exc = "InvalidSignatureError" THEN Reject(401, "Invalid signature")
    ELSE IF exc # "ok" THEN Reject(500, "Internal Server Error")
    ELSE IF raw.data \in {"absent", "empty"} THEN Reject(400, "Payload missing data field")
    ELSE IF raw.data = "structure" THEN Reject(500, "Internal Server Error")      \* json.loads: TypeError
    ELSE IF raw.data = "str_badjson" THEN Reject(400, "Invalid JSON in payload data")
    ELSE IF raw.data = "str_nonobject" THEN Reject(500, "Internal Server Error")  \* .get: AttributeError
    ELSE IF ~Truthy(raw.instanceId) THEN Reject(400, "Payload missing instanceId")
    ELSE Accept

(* A handler that reports a failed exchange to the webhook sender *)
AfterExchangeSurfacesFailure(res) ==
    IF res.exc = "JSONDecodeError"
    THEN [pc |-> "done", response |-> Response(400, "Invalid JSON in payload data")]
    ELSE IF res.raised \/ ~Truthy(res.value)
    THEN [pc |-> "done", response |-> Response(500, "Internal Server Error")]
    ELSE [pc |-> "set_token", response |-> NoResponse]

(* How handle_wix_webhook goes on after get_access_token *)
AfterExchange(res) ==
    IF res.exc = "JSONDecodeError"                           \* except json.JSONDecodeError
    THEN [pc |-> "done", response |-> Response(400, "Invalid JSON in payload data")]
    ELSE IF res.raised THEN [pc |-> "done", response |-> Response(500, "Internal Server Error")]
    ELSE IF Truthy(res.value) THEN [pc |-> "set_token", response |-> NoResponse]
    ELSE [pc |-> "done", response |-> Response(200, "Webhook processed successfully")]

----------------------------------------------------------------------------
(* The credential table *)

Keys(tbl) == {tbl[i].instance_id : i \in 1..Len(tbl)}
Pos(tbl, id) == CHOOSE i \in 1..Len(tbl) : tbl[i].instance_id = id
Ref(tbl, id) == tbl[Pos(tbl, id)].ref
Rec(id) == heap[Ref(table, id)]

EmptyRecord == [access_token |-> Null, expires_at |-> 0]

(* Object identities: a dict lives while the table or the refresher's list *)
(* refers to it (reference counting frees it at once otherwise).           *)
Refs == 1..(2 * Cardinality(InstanceIds))
RefsOf(seq) == {seq[i].ref : i \in 1..Len(seq)}
Collect(hp, live) == [r \in Refs |-> IF r \in live THEN hp[r] ELSE EmptyRecord]

(* An admission that keeps the record of a tenant it already knows *)
UpsertKeepExisting(tbl, hp, id) ==
    IF id \in Keys(tbl) THEN [table |-> tbl, heap |-> hp]
    ELSE LET ref == CHOOSE r \in Refs :
                       /\ r \notin RefsOf(tbl) \cup RefsOf(snapshot)
                       /\ \A q \in Refs : q < r => q \in RefsOf(tbl) \cup RefsOf(snapshot) IN
         [table |-> Append(tbl, [instance_id |-> id, ref |-> ref]),
          heap |-> [hp EXCEPT ![ref] = EmptyRecord]]

(* app_instance_data[instance_id] = {...}: a new dict object, in the key's *)
(* old place if the key exists, at the end otherwise; the dict it replaces *)
(* loses the table's reference                                             *)
Upsert(tbl, hp, id) ==
    LET kept == SelectSeq(tbl, LAMBDA e : e.instance_id # id)
        ref == CHOOSE r \in Refs :
                  /\ r \notin RefsOf(kept) \cup RefsOf(snapshot)
                  /\ \A q \in Refs : q < r => q \in RefsOf(kept) \cup RefsOf(snapshot)
        entry == [instance_id |-> id, ref |-> ref]
        tbl2 == IF id \in Keys(tbl) THEN [tbl EXCEPT ![Pos(tbl, id)] = entry]
                ELSE Append(tbl, entry) IN
    [table |-> tbl2,
     heap |-> Collect([hp EXCEPT ![ref] = EmptyRecord], RefsOf(tbl2) \cup RefsOf(snapshot))]

View(tbl, hp) ==
    [i \in 1..Len(tbl) |->
        [instance_id |-> tbl[i].instance_id, ref |-> tbl[i].ref,
         access_token |-> hp[tbl[i].ref].access_token,
         expires_at |-> hp[tbl[i].ref].expires_at]]

(* A refresh test that also takes the record with exactly the threshold left *)
DueInclusive(data, t) == Truthy(data.access_token) /\ data.expires_at - t <= REFRESH_THRESHOLD

(* data['access_token'] and data['expires_at'] - current_time < 3600 *)
Due(data, t) == Truthy(data.access_token) /\ data.expires_at - t < REFRESH_THRESHOLD

----------------------------------------------------------------------------
Handlers == DOMAIN hpc

InitWith(threads) ==
    /\ now = 0
    /\ table = <<>>
    /\ heap = [r \in Refs |-> EmptyRecord]
    /\ hpc = [h \in threads |-> "idle"]
    /\ hraw = [h \in threads |-> NoBody]
    /\ hinstance = [h \in threads |-> Null]
    /\ hres = [h \in threads |-> NotCalled]
    /\ hstatus = [h \in threads |-> NoResponse]
    /\ hpre = [h \in threads |-> <<>>]
    /\ rpc = "ready"
    /\ current_time = 0
    /\ snapshot = <<>>
    /\ idx = 0
    /\ new_token = Null
    /\ wake_at = 0

Init == InitWith({"h1"})

(* Time passes; time.sleep(600) returns once its 600 seconds are over *)
Tick ==
    /\ \E t \in Times : t > now /\ now' = t
    /\ IF rpc = "sleep" /\ now' >= wake_at
       THEN rpc' = "ready" /\ wake_at' = 0
       ELSE UNCHANGED <<rpc, wake_at>>
    /\ UNCHANGED <<table, heap, hvars, current_time, snapshot, idx, new_token>>

----------------------------------------------------------------------------
(* handle_wix_webhook, one request thread h *)

(* The request arrives: line 69 decodes the body outside the try block, so *)
(* a UnicodeDecodeError leaves the function; otherwise the body is verified*)
(* and parsed, and either the call returns or the record is (re)created.   *)
ReceiveFrom(h, bodies) ==
    /\ hpc[h] = "idle"
    /\ \E raw \in bodies :
        /\ hraw' = [hraw EXCEPT ![h] = raw]
        /\ hpre' = [hpre EXCEPT ![h] = View(table, heap)]
        /\ IF ~raw.utf8
           THEN /\ hpc' = [hpc EXCEPT ![h] = "propagated"]
                /\ UNCHANGED <<table, heap, hinstance, hstatus>>
           ELSE LET p == PreAdmission(raw) IN
                IF p.admit
                THEN /\ LET u == Upsert(table, heap, raw.instanceId) IN
                            table' = u.table /\ heap' = u.heap
                     /\ hinstance' = [hinstance EXCEPT ![h] = raw.instanceId]
                     /\ hpc' = [hpc EXCEPT ![h] = "exchange"]
                     /\ UNCHANGED hstatus
                ELSE /\ hstatus' = [hstatus EXCEPT ![h] = p.response]
                     /\ hpc' = [hpc EXCEPT ![h] = "done"]
                     /\ UNCHANGED <<table, heap, hinstance>>
    /\ UNCHANGED <<now, hres, rvars>>

Receive(h) == ReceiveFrom(h, Bodies)

(* token = get_access_token(instance_id); if token: ... *)
ExchangeFrom(h, responses) ==
    /\ hpc[h] = "exchange"
    /\ \E resp \in responses :
        LET res == get_access_token(resp)
            nxt == AfterExchange(res) IN
        /\ hres' = [hres EXCEPT ![h] = res]
        /\ hpc' = [hpc EXCEPT ![h] = nxt.pc]
        /\ hstatus' = [hstatus EXCEPT ![h] = nxt.response]
    /\ UNCHANGED <<now, table, heap, hraw, hinstance, hpre, rvars>>

Exchange(h) == ExchangeFrom(h, Responses)

(* app_instance_data[instance_id]['access_token'] = token *)
SetToken(h) ==
    /\ hpc[h] = "set_token"
    /\ heap' = [heap EXCEPT ![Ref(table, hinstance[h])].access_token = hres[h].value]
    /\ hpc' = [hpc EXCEPT ![h] = "set_expiry"]
    /\ UNCHANGED <<now, table, hraw, hinstance, hres, hstatus, hpre, rvars>>

(* app_instance_data[instance_id]['expires_at'] = time.time() + 14400; return 200 *)
SetExpiry(h) ==
    /\ hpc[h] = "set_expiry"
    /\ heap' = [heap EXCEPT ![Ref(table, hinstance[h])].expires_at = now + TOKEN_LIFETIME]
    /\ hstatus' = [hstatus EXCEPT ![h] = Response(200, "Webhook processed successfully")]
    /\ hpc' = [hpc EXCEPT ![h] = "done"]
    /\ UNCHANGED <<now, table, hraw, hinstance, hres, hpre, rvars>>

(* The response (or the escaped exception) has reached the server; the     *)
(* thread is free for the next request.                                    *)
Return(h) ==
    /\ hpc[h] \in {"done", "propagated"}
    /\ hpc' = [hpc EXCEPT ![h] = "idle"]
    /\ hraw' = [hraw EXCEPT ![h] = NoBody]
    /\ hinstance' = [hinstance EXCEPT ![h] = Null]
    /\ hres' = [hres EXCEPT ![h] = NotCalled]
    /\ hstatus' = [hstatus EXCEPT ![h] = NoResponse]
    /\ hpre' = [hpre EXCEPT ![h] = <<>>]
    /\ UNCHANGED <<now, table, heap, rvars>>

----------------------------------------------------------------------------
(* token_refresher_task *)

(* current_time = time.time() *)
SweepStart ==
    /\ rpc = "ready"
    /\ current_time' = now
    /\ rpc' = "snap"
    /\ UNCHANGED <<now, table, heap, hvars, snapshot, idx, new_token, wake_at>>

(* list(app_instance_data.items()): the keys with references to the dicts *)
Snapshot ==
    /\ rpc = "snap"
    /\ snapshot' = table
    /\ idx' = 1
    /\ rpc' = "loop"
    /\ UNCHANGED <<now, table, heap, hvars, current_time, new_token, wake_at>>

(* the if of the loop body, read through the reference *)
Check ==
    /\ rpc = "loop"
    /\ idx <= Len(snapshot)
    /\ IF Due(heap[snapshot[idx].ref], current_time)
       THEN rpc' = "exchange" /\ idx' = idx
       ELSE rpc' = "loop" /\ idx' = idx + 1
    /\ UNCHANGED <<now, table, heap, hvars, current_time, snapshot, new_token, wake_at>>

(* new_token = get_access_token(instance_id); if new_token: ...; an        *)
(* exception ends the thread, nothing in the task catches it               *)
RefreshExchangeFrom(responses) ==
    /\ rpc = "exchange"
    /\ \E resp \in responses :
        LET res == get_access_token(resp) IN
        IF res.raised
        THEN rpc' = "dead" /\ UNCHANGED <<idx, new_token>>
        ELSE IF Truthy(res.value)
        THEN rpc' = "set_token" /\ new_token' = res.value /\ idx' = idx
        ELSE rpc' = "loop" /\ idx' = idx + 1 /\ UNCHANGED new_token
    /\ UNCHANGED <<now, table, heap, hvars, current_time, snapshot, wake_at>>

RefreshExchange == RefreshExchangeFrom(Responses)

(* The token stored in whatever record the table holds for the tenant now,  *)
(* which is not what line 128 does: data is the dict taken at line 123.    *)
RefreshSetTokenByKey ==
    /\ rpc = "set_token"
    /\ heap' = [heap EXCEPT ![Ref(table, snapshot[idx].instance_id)].access_token = new_token]
    /\ rpc' = "set_expiry"
    /\ UNCHANGED <<now, table, hvars, current_time, snapshot, idx, new_token, wake_at>>

(* data['access_token'] = new_token *)
RefreshSetToken ==
    /\ rpc = "set_token"
    /\ heap' = [heap EXCEPT ![snapshot[idx].ref].access_token = new_token]
    /\ rpc' = "set_expiry"
    /\ UNCHANGED <<now, table, hvars, current_time, snapshot, idx, new_token, wake_at>>

(* The expiry counted from the time read at the start of the sweep, which   *)
(* is not what line 129 does: it reads the clock again.                    *)
RefreshSetExpirySweepTime ==
    /\ rpc = "set_expiry"
    /\ heap' = [heap EXCEPT ![snapshot[idx].ref].expires_at = current_time + TOKEN_LIFETIME]
    /\ rpc' = "loop"
    /\ idx' = idx + 1
    /\ new_token' = Null
    /\ UNCHANGED <<now, table, hvars, current_time, snapshot, wake_at>>

(* data['expires_at'] = time.time() + 14400 *)
RefreshSetExpiry ==
    /\ rpc = "set_expiry"
    /\ heap' = [heap EXCEPT ![snapshot[idx].ref].expires_at = now + TOKEN_LIFETIME]
    /\ rpc' = "loop"
    /\ idx' = idx + 1
    /\ new_token' = Null
    /\ UNCHANGED <<now, table, hvars, current_time, snapshot, wake_at>>

(* the for loop is over: time.sleep(600) *)
SweepEnd ==
    /\ rpc = "loop"
    /\ idx > Len(snapshot)
    /\ rpc' = "sleep"
    /\ wake_at' = now + SLEEP_SECONDS
    /\ snapshot' = <<>>
    /\ idx' = 0
    /\ current_time' = 0
    /\ heap' = Collect(heap, RefsOf(table))
    /\ UNCHANGED <<now, table, hvars, new_token>>

----------------------------------------------------------------------------
(* Calls made one at a time: a handle_wix_webhook call runs from arrival to*)
(* return while the refresher sleeps, and a sweep runs from its start to   *)
(* its sleep while no request is being handled.  The clock runs throughout.*)

RefresherQuiet == rpc \in {"sleep", "ready", "dead"}
OthersIdle(h) == \A g \in Handlers \ {h} : hpc[g] = "idle"
AllIdle == \A g \in Handlers : hpc[g] = "idle"

HandlerTurn(h) == RefresherQuiet /\ OthersIdle(h)
RefresherTurn == AllIdle

Next ==
    \/ Tick
    \/ \E h \in Handlers : HandlerTurn(h) /\ Receive(h)
    \/ \E h \in Handlers : HandlerTurn(h) /\ Exchange(h)
    \/ \E h \in Handlers : HandlerTurn(h) /\ SetToken(h)
    \/ \E h \in Handlers : HandlerTurn(h) /\ SetExpiry(h)
    \/ \E h \in Handlers : HandlerTurn(h) /\ Return(h)
    \/ RefresherTurn /\ SweepStart
    \/ RefresherTurn /\ Snapshot
    \/ RefresherTurn /\ Check
    \/ RefresherTurn /\ RefreshExchange
    \/ RefresherTurn /\ RefreshSetToken
    \/ RefresherTurn /\ RefreshSetExpiry
    \/ RefresherTurn /\ SweepEnd

Spec == Init /\ [][Next]_vars

----------------------------------------------------------------------------
(* Concurrent requests: the server gives each request a thread of its own, *)
(* and the threads, the refresher and the clock interleave freely between  *)
(* their steps.  Two requests arrive, each with a body that passes         *)
(* verification and parsing (a rejected request touches nothing shared),   *)
(* and the platform answers with one answer of each kind the callers tell  *)
(* apart: no token, an answer that makes the client raise, a token.        *)

AdmissibleBodies == {raw \in Bodies : PreAdmission(raw).admit /\ raw.utf8}

ConcResponses == {resp \in Responses : resp.kind \in {"non2xx", "notobject"} \/ Truthy(resp.token)}

InitConc == InitWith({"h1", "h2"})

NextConc ==
    \/ Tick
    \/ \E h \in Handlers : ReceiveFrom(h, AdmissibleBodies)
    \/ \E h \in Handlers : ExchangeFrom(h, ConcResponses)
    \/ \E h \in Handlers : SetToken(h)
    \/ \E h \in Handlers : SetExpiry(h)
    \/ SweepStart
    \/ Snapshot
    \/ Check
    \/ RefreshExchangeFrom(ConcResponses)
    \/ RefreshSetToken
    \/ RefreshSetExpiry
    \/ SweepEnd

SpecConc == InitConc /\ [][NextConc]_vars

----------------------------------------------------------------------------
(* A platform endpoint that never answers.  requests.post is called with   *)
(* no timeout argument, so the call of line 53 waits on the socket without *)
(* limit: no exception is raised, nothing is returned, and the code has no *)
(* step that takes the thread out of the call.                             *)
(* One request in its thread and the refresher, interleaving freely.       *)

ExchangeHangs(h) ==
    /\ hpc[h] = "exchange"
    /\ hpc' = [hpc EXCEPT ![h] = "hung"]
    /\ UNCHANGED <<now, table, heap, hraw, hinstance, hres, hstatus, hpre, rvars>>

RefreshExchangeHangs ==
    /\ rpc = "exchange"
    /\ rpc' = "hung"
    /\ UNCHANGED <<now, table, heap, hvars, current_time, snapshot, idx, new_token, wake_at>>

NextHang ==
    \/ Tick
    \/ \E h \in Handlers : ReceiveFrom(h, AdmissibleBodies)
    \/ \E h \in Handlers : ExchangeFrom(h, ConcResponses)
    \/ \E h \in Handlers : ExchangeHangs(h)
    \/ \E h \in Handlers : SetToken(h)
    \/ \E h \in Handlers : SetExpiry(h)
    \/ SweepStart
    \/ Snapshot
    \/ Check
    \/ RefreshExchangeFrom(ConcResponses)
    \/ RefreshExchangeHangs
    \/ RefreshSetToken
    \/ RefreshSetExpiry
    \/ SweepEnd

SpecHang == Init /\ [][NextHang]_vars

----------------------------------------------------------------------------
(* Properties *)

Returned200(h) == hstatus[h] = Response(200, "Webhook processed successfully")

(* a token jwt.decode accepts: well-formed, RS256, good signature, claims in date *)
ValidlySigned(raw) ==
    raw.utf8 /\ raw.form = "ok" /\ raw.alg = "RS256" /\ raw.sig = "good" /\ raw.claims = "ok"

CarriesTenantId(raw) == HasObject(raw) /\ raw.instanceId \in InstanceIds

(* signature verification of a decoded body fails *)
VerificationFails(raw) ==
    raw.utf8 /\ (raw.form # "ok" \/ raw.alg # "RS256" \/ raw.sig # "good")

(* an otherwise good token whose signature segment was altered *)
CorruptedSignature(raw) ==
    raw.utf8 /\ raw.form = "ok" /\ raw.alg = "RS256" /\ raw.sig # "good"

ExchangeAbsent(h) == hres[h].called /\ ~hres[h].raised /\ hres[h].value = Null

(* C1: every call for a validly signed token that carries a tenant id in   *)
(* its data field, as a JSON string or as an embedded structure, returns   *)
(* 200 with a record for that tenant id in the table.                      *)
C1_ValidTokenAdmitted ==
    \A h \in Handlers :
        (hpc[h] = "done" /\ ValidlySigned(hraw[h]) /\ CarriesTenantId(hraw[h]))
        => (hstatus[h].status = 200 /\ hraw[h].instanceId \in Keys(table))

(* C2: every call whose token fails signature verification, for whatever   *)
(* reason, returns 401 "Invalid signature".                                *)
C2_VerificationFailureIs401 ==
    \A h \in Handlers :
        (hpc[h] = "done" /\ VerificationFails(hraw[h]))
        => hstatus[h] = Response(401, "Invalid signature")

(* C3: a call for a token with a corrupted signature returns 401 and the   *)
(* table is as it was when the call began; every call that returns 400     *)
(* leaves the table as it was, too.                                        *)
C3_RejectionLeavesTable ==
    \A h \in Handlers :
        hpc[h] = "done" =>
            /\ CorruptedSignature(hraw[h]) =>
                   (hstatus[h].status = 401 /\ View(table, heap) = hpre[h])
            /\ hstatus[h].status = 400 => View(table, heap) = hpre[h]

(* C4: no failure leaves the handler as an exception: every call ends with *)
(* a response whose status is 200, 400, 401 or 500.                        *)
C4_AlwaysStructuredResponse ==
    \A h \in Handlers :
        /\ hpc[h] # "propagated"
        /\ hpc[h] = "done" => hstatus[h].status \in {200, 400, 401, 500}

(* C5: a call whose token exchange returned absent returns 200 and leaves  *)
(* the tenant's record with a null access_token.                           *)
C5_ExchangeAbsentStill200 ==
    \A h \in Handlers :
        (hpc[h] = "done" /\ ExchangeAbsent(h))
        => /\ Returned200(h)
           /\ hinstance[h] \in Keys(table)
           /\ Rec(hinstance[h]).access_token = Null

C5_Witness ==
    \E h \in Handlers :
        /\ hpc[h] = "done" /\ ExchangeAbsent(h) /\ hres[h].kind = "non2xx"
        /\ \E i \in 1..Len(hpre[h]) :
              hpre[h][i].instance_id = hinstance[h] /\ hpre[h][i].access_token # Null

(* C6: when a sweep examines a record whose access_token is null, it       *)
(* attempts an exchange for it.                                            *)
C6_NullTokenRetriedBySweep ==
    [][(/\ rpc = "loop" /\ idx <= Len(snapshot)
        /\ heap[snapshot[idx].ref].access_token = Null
        /\ <<rpc, idx>>' # <<rpc, idx>>)
       => rpc' = "exchange"]_vars

(* C7: when an admission returns, the tenant's record holds the outcome of *)
(* that admission's exchange alone: its token with expiry now + 14400 if   *)
(* the exchange gave one, null token and zero expiry otherwise, whatever   *)
(* the record held before.                                                 *)
C7_ReadmissionResets ==
    [][\A h \in Handlers :
        (hpc[h] # "done" /\ hpc'[h] = "done" /\ hres'[h].called)
        => heap'[Ref(table', hinstance'[h])] =
             IF ~hres'[h].raised /\ Truthy(hres'[h].value)
             THEN [access_token |-> hres'[h].value, expires_at |-> now + 14400]
             ELSE [access_token |-> Null, expires_at |-> 0]]_vars

(* the second admission of a tenant that held a token, its exchange failed *)
C7_Witness ==
    \E h \in Handlers :
        /\ hpc[h] = "done" /\ hres[h].called /\ ~Truthy(hres[h].value)
        /\ \E i \in 1..Len(hpre[h]) :
              hpre[h][i].instance_id = hinstance[h] /\ hpre[h][i].access_token # Null
        /\ Rec(hinstance[h]) = EmptyRecord

(* C8: the sweep that read the clock at current_time attempts an exchange  *)
(* for the record it examines exactly when the record's access_token is    *)
(* non-null and expires_at - current_time < 3600.                          *)
C8_RefreshCondition ==
    [][(rpc = "loop" /\ idx <= Len(snapshot) /\ <<rpc, idx>>' # <<rpc, idx>>)
       => LET data == heap[snapshot[idx].ref] IN
          (rpc' = "exchange") <=>
              (data.access_token # Null /\ data.expires_at - current_time < 3600)]_vars

(* an attempt for a record with 1800 seconds left *)
C8_Witness ==
    /\ rpc = "exchange"
    /\ heap[snapshot[idx].ref].access_token # Null
    /\ heap[snapshot[idx].ref].expires_at = current_time + 1800

(* C9: an exchange of the sweep that delivers no token changes no record   *)
(* and the sweep goes on with the next tenant.                             *)
C9_FailureIsolation ==
    [][(rpc = "exchange" /\ rpc' \notin {"exchange", "set_token"})
       => (rpc' = "loop" /\ idx' = idx + 1 /\ heap' = heap)]_vars

(* C10: get_access_token never raises, returns absent for a transport      *)
(* failure, a non-2xx response, a body that is not JSON, not a JSON object *)
(* or without access_token, and returns a token only if the response       *)
(* carries it.                                                             *)
C10_ExchangeNeverRaises ==
    /\ rpc # "dead"
    /\ \A h \in Handlers :
          hres[h].called =>
              /\ ~hres[h].raised
              /\ hres[h].kind \in {"transport", "non2xx", "notjson", "notjson_legacy",
                                   "notobject", "nofield"} => hres[h].value = Null
              /\ hres[h].value # Null => hres[h].kind = "token"

(* C11: a verified token with a malformed payload is rejected with 400 and *)
(* the message of its defect: data absent, data not valid JSON, or data    *)
(* that parses, to whatever JSON value, without a tenant identifier.       *)
C11_PayloadDefectMessages ==
    \A h \in Handlers :
        (hpc[h] = "done" /\ ValidlySigned(hraw[h])) =>
            /\ hraw[h].data = "absent"
                   => hstatus[h] = Response(400, "Payload missing data field")
            /\ hraw[h].data = "str_badjson"
                   => hstatus[h] = Response(400, "Invalid JSON in payload data")
            /\ (\/ hraw[h].data = "str_nonobject"
                \/ hraw[h].data = "str_object" /\ ~Truthy(hraw[h].instanceId))
                   => hstatus[h] = Response(400, "Payload missing instanceId")

AllReturned == \A h \in Handlers : hpc[h] = "done"
DistinctTenants == \A g, h \in Handlers : g # h => hinstance[g] # hinstance[h]

(* what the exchange of call h gave: its token, or nothing *)
OwnToken(h) == IF ~hres[h].raised /\ Truthy(hres[h].value) THEN hres[h].value ELSE Null

(* C12: once simultaneous callers with distinct tenant ids have all        *)
(* returned, the table holds exactly one record per caller, under the      *)
(* caller's tenant id, with the token of the caller's own exchange.        *)
C12_ConcurrentAdmissions ==
    (AllReturned /\ DistinctTenants) =>
        /\ Len(table) = Cardinality(Handlers)
        /\ \A h \in Handlers :
              /\ hinstance[h] \in Keys(table)
              /\ Rec(hinstance[h]).access_token = OwnToken(h)

(* the record a request thread is writing, between its two writes *)
HalfWritten(h, ref) == hpc[h] = "set_expiry" /\ Ref(table, hinstance[h]) = ref

(* C13: the refresher neither reads nor writes a record that a request     *)
(* thread has given its token but not yet its expiry, and no request       *)
(* thread writes a record between the refresher's two writes of it.        *)
C13_MutualExclusion ==
    [][/\ (/\ rpc \in {"loop", "set_token", "set_expiry"}
           /\ idx <= Len(snapshot)
           /\ <<rpc, idx>>' # <<rpc, idx>>)
          => \A h \in Handlers : ~HalfWritten(h, snapshot[idx].ref)
       /\ rpc = "set_expiry"
          => \A h \in Handlers :
                (hpc[h] \in {"set_token", "set_expiry"} /\ hpc'[h] # hpc[h])
                => Ref(table, hinstance[h]) # snapshot[idx].ref]_vars

(* C14: every record of the table with a token has a positive expiry (the  *)
(* expiry lies after the time the token was set, which is not negative).   *)
C14_TokenHasExpiry ==
    \A i \in 1..Len(table) :
        heap[table[i].ref].access_token # Null => heap[table[i].ref].expires_at > 0

(* C15: every record of the table without a token has expiry 0.            *)
C15_NullTokenZeroExpiry ==
    \A i \in 1..Len(table) :
        heap[table[i].ref].access_token = Null => heap[table[i].ref].expires_at = 0

(* C16: when a refresh exchange succeeds, the record gets the new token and *)
(* an expiry of 14400 seconds after the clock reading taken when the expiry *)
(* is written (after the exchange), which is never earlier than the time    *)
(* the sweep used in its test.                                              *)
RefreshCompletes == rpc = "set_expiry" /\ rpc' # rpc

C16_RefreshExpiryFromWriteTime ==
    [][RefreshCompletes =>
        /\ heap'[snapshot[idx].ref] = [access_token |-> new_token, expires_at |-> now + TOKEN_LIFETIME]
        /\ now >= current_time]_vars

(* C16 as stated: the expiry is exactly the sweep's own time value plus     *)
(* 14400, however long the exchange took.                                   *)
C16_RefreshExpiryFromSweepTime ==
    [][RefreshCompletes =>
        heap'[snapshot[idx].ref] = [access_token |-> new_token, expires_at |-> current_time + TOKEN_LIFETIME]]_vars

(* a refresh written after the clock moved on during the sweep *)
C16_Witness ==
    /\ rpc = "loop" /\ idx > 1
    /\ now > current_time
    /\ Truthy(heap[snapshot[idx - 1].ref].access_token)
    /\ heap[snapshot[idx - 1].ref].expires_at = now + TOKEN_LIFETIME

(* C17: the set of tenant ids only grows, never by a step of the refresher, *)
(* and a call that ends with anything but 200 leaves no tenant id in the    *)
(* table that was not there when the call arrived.                          *)
CallEnds(h) == hpc[h] \notin {"done", "propagated"} /\ hpc'[h] \in {"done", "propagated"}

C17_KeysOnlyGrowBy200 ==
    [][/\ Keys(table) \subseteq Keys(table')
       /\ Keys(table') # Keys(table) => \E h \in Handlers : hpc[h] = "idle" /\ hpc'[h] # "idle"
       /\ \A h \in Handlers :
            (CallEnds(h) /\ hstatus'[h].status # 200)
                => Keys(table') \subseteq {hpre'[h][i].instance_id : i \in DOMAIN hpre'[h]}]_vars

(* C18: while a sweep is in progress, no step changes the contents of a     *)
(* record of the snapshot that the sweep has still to examine: what the     *)
(* sweep reads for a tenant is what the record held at the snapshot moment. *)
(* (The list of the snapshot is a copy, so a tenant added to the table      *)
(* during the sweep changes neither its length nor its order.)              *)
Unexamined(i) == i \in 1..Len(snapshot) /\ (i > idx \/ (i = idx /\ rpc = "loop"))

C18_StableSnapshot ==
    [][\A i \in 1..Len(snapshot) :
            (rpc \in {"loop", "exchange", "set_token", "set_expiry"} /\ Unexamined(i))
                => heap'[snapshot[i].ref] = heap[snapshot[i].ref]]_vars

(* C19: no token-exchange call stays in the network call for ever: the      *)
(* sweep and the webhook call are never left waiting without end on an      *)
(* endpoint that does not answer.                                           *)
C19_ExchangeAlwaysReturns == rpc # "hung" /\ \A h \in Handlers : hpc[h] # "hung"

(* C20: a refresh that took tenant T from a snapshot made before T was      *)
(* admitted again writes its token and its expiry to the record it took,    *)
(* which the table no longer holds: the table and the records it holds are  *)
(* the same after each of the two writes as before.                         *)
Replaced(e) == e.instance_id \in Keys(table) /\ Ref(table, e.instance_id) # e.ref

RefreshWrites == rpc \in {"set_token", "set_expiry"} /\ rpc' # rpc

C20_StaleRefreshLeavesNewRecord ==
    [][(RefreshWrites /\ Replaced(snapshot[idx])) => View(table', heap') = View(table, heap)]_vars

(* the refresher has stored its token in the replaced record and is about   *)
(* to store the expiry; the record of the new admission has another token   *)
C20_Witness ==
    /\ rpc = "set_expiry"
    /\ Replaced(snapshot[idx])
    /\ heap[snapshot[idx].ref].access_token = new_token
    /\ Rec(snapshot[idx].instance_id).access_token # new_token

====
